---- MODULE Spec2Model ----
(***************************************************************************)
(* Curliducation: slug assignment on save (courses/models.py), the         *)
(* role-gated course / class management handlers (courses/views.py), the   *)
(* enrollment and progress accessors, the lesson navigation, the course    *)
(* listing and the deletion cascade.                                       *)
(*                                                                         *)
(* Strings that the code inspects character by character (titles, slugs)   *)
(* are sequences of one-character strings, so that slugify and the         *)
(* "-<counter>" suffix are computed, not assumed.                          *)
(***************************************************************************)
EXTENDS Integers, Sequences, FiniteSets, TLC

VARIABLES
    store,      \* store[k]: the rows of table k (Course, Recipe, Book)
    nextId,     \* nextId[k]: the next auto-increment primary key of table k
    origin,     \* history: origin[k] = how each row of table k was first saved
    resaves,    \* history: save() calls made on persisted rows
    deletes,    \* history: delete() calls made
    inflight,   \* inflight[p]: the save() call worker p is currently executing
    classes,    \* the rows of the Class table
    nextClassId,\* the next primary key of the Class table
    resp,       \* the request being answered, with its response (or NoResponse)
    enrollments,    \* the rows of the Enrollment table
    class_progress, \* the rows of the ClassProgress table
    reviews,        \* the rows of the Review table
    course_of,      \* the non-null course references of Recipe and Book rows
    catalog,        \* the Course rows with the columns the course listing reads
                    \* (filled in where the listing is requested)
    now,            \* timezone.now()
    result          \* the last model method or listing call, with what it returned

\* the tables that hang off courses and lessons
learning == <<enrollments, class_progress, reviews, course_of>>

\* what the slug and management actions never touch
aside == <<catalog, now, result>>

vars == <<store, nextId, origin, resaves, deletes, inflight, classes, nextClassId, resp,
          enrollments, class_progress, reviews, course_of, catalog, now, result>>

-----------------------------------------------------------------------------
(* Bounds *)

MaxCreates == 3     \* rows ever inserted, all three slugged tables together
MaxResaves == 1     \* save() calls on persisted rows
MaxDeletes == 1     \* delete() calls
MaxRaceCreates == 2 \* save() calls started by the concurrent workers
MaxCourses == 2     \* courses ever created through course_create
MaxClasses == 1     \* classes ever created through class_create
MaxEnrollments == 3 \* enrollments ever created
MaxStarted == 2     \* ClassProgress rows ever created
MaxTime == 2        \* readings of timezone.now()
MaxLessons == 3     \* lessons on the site when lessons are navigated
MaxOrder == 3       \* the largest Class.order in use
MaxListed == 2      \* courses on the site when the listing is requested

-----------------------------------------------------------------------------
(* Entity types with a slug, and the users of the site *)

Kinds == {"Course", "Recipe", "Book"}

Users == {"chef1", "chef2", "student", "admin"}

\* request.user of a visitor who is not logged in
Anonymous == "anonymous"

role(u) ==
    CASE u \in {"chef1", "chef2"} -> "CHEF"
      [] u = "student" -> "STUDENT"
      [] u = "admin" -> "ADMIN"

is_chef(u) == role(u) = "CHEF"

\* (mutant: only the ADMIN role passes the admin check)
is_admin_AdminOnly(u) == role(u) = "ADMIN"

is_admin(u) == role(u) = "ADMIN" \/ role(u) = "CHEF"

is_student(u) == role(u) = "STUDENT"

Chefs == {u \in Users : is_chef(u)}

-----------------------------------------------------------------------------
(* django.utils.text.slugify, as called by save() *)

\* The titles submitted.  "A!" has the base "a"; "a 1" has the base "a-1", the
\* first suffixed candidate of "a"; "!" has the empty base.
Titles == { <<"A", "!">>, <<"a", " ", "1">>, <<"!">> }

NoSlug == << >>

Lower(c) == CASE c = "A" -> "a" [] c = "B" -> "b" [] OTHER -> c

IsWordChar(c) == c \in {"a", "b", "z", "0", "1", "2", "3", "4", "5", "6", "7", "8", "9", "_"}

IsSeparator(c) == c \in {" ", "-"}

LowerAll(s) == [i \in 1..Len(s) |-> Lower(s[i])]

\* re.sub(r"[^\w\s-]", "", value.lower())
KeepSlugChars(s) == SelectSeq(LowerAll(s), LAMBDA c : IsWordChar(c) \/ IsSeparator(c))

\* re.sub(r"[-\s]+", "-", value)
RECURSIVE CollapseSeparators(_)
CollapseSeparators(s) ==
    IF s = << >> THEN << >>
    ELSE IF IsSeparator(Head(s))
         THEN IF Len(s) > 1 /\ IsSeparator(s[2])
              THEN CollapseSeparators(Tail(s))
              ELSE <<"-">> \o CollapseSeparators(Tail(s))
         ELSE <<Head(s)>> \o CollapseSeparators(Tail(s))

IsStripped(c) == c \in {"-", "_"}

RECURSIVE StripLeft(_)
StripLeft(s) ==
    IF s # << >> /\ IsStripped(Head(s)) THEN StripLeft(Tail(s)) ELSE s

RECURSIVE StripRight(_)
StripRight(s) ==
    IF s # << >> /\ IsStripped(s[Len(s)])
    THEN StripRight(SubSeq(s, 1, Len(s) - 1))
    ELSE s

slugify(title) == StripRight(StripLeft(CollapseSeparators(KeepSlugChars(title))))

-----------------------------------------------------------------------------
(* f"{base_slug}-{counter}" *)

DigitChar(d) == <<"0", "1", "2", "3", "4", "5", "6", "7", "8", "9">>[d + 1]

RECURSIVE Decimal(_)
Decimal(n) ==
    IF n < 10 THEN <<DigitChar(n)>>
    ELSE Decimal(n \div 10) \o <<DigitChar(n % 10)>>

Candidate(base_slug, counter) == base_slug \o <<"-">> \o Decimal(counter)

-----------------------------------------------------------------------------
(* The slug loop of save() *)

\* Model.objects.filter(slug=slug).exists()
SlugExists(rows, slug) == \E r \in rows : r.slug = slug

\* (mutant: the counter is incremented before it is formatted)
RECURSIVE SlugLoop_IncrementFirst(_, _, _, _)
SlugLoop_IncrementFirst(rows, base_slug, slug, counter) ==
    IF SlugExists(rows, slug)
    THEN SlugLoop_IncrementFirst(rows, base_slug,
                                 Candidate(base_slug, counter + 1), counter + 1)
    ELSE slug

\* while ...exists(): slug = f"{base_slug}-{counter}"; counter += 1
RECURSIVE SlugLoop(_, _, _, _)
SlugLoop(rows, base_slug, slug, counter) ==
    IF SlugExists(rows, slug)
    THEN SlugLoop(rows, base_slug, Candidate(base_slug, counter), counter + 1)
    ELSE slug

\* (mutant: the suffix is appended without trying the bare base first)
UniqueSlug_AlwaysSuffixed(rows, base_slug) ==
    SlugLoop(rows, base_slug, Candidate(base_slug, 1), 2)

\* slug = base_slug; counter = 1; the loop
UniqueSlug(rows, base_slug) == SlugLoop(rows, base_slug, base_slug, 1)

\* if not self.slug: ... self.slug = slug
SlugOnSave(rows, title, slug) ==
    IF slug = NoSlug THEN UniqueSlug(rows, slugify(title)) ELSE slug

-----------------------------------------------------------------------------
(* Storage: slug = SlugField(unique=True) *)

\* (mutant: the column declared without unique=True)
ViolatesUnique_NotDeclared(rows, id, slug) == FALSE

\* the unique index on slug rejects a write whose slug another row holds
ViolatesUnique(rows, id, slug) == \E r \in rows : r.id # id /\ r.slug = slug

Row(id, chef, title, slug) == [id |-> id, chef |-> chef, title |-> title, slug |-> slug]

RowOf(rows, id) == CHOOSE r \in rows : r.id = id

Created == (nextId["Course"] - 1) + (nextId["Recipe"] - 1) + (nextId["Book"] - 1)

\* history entry of the first save of row id
Origin(id, title, slug_in, slug) ==
    [id |-> id, supplied |-> slug_in # NoSlug, base |-> slugify(title), slug |-> slug]

OriginOf(k, id) == CHOOSE o \in origin[k] : o.id = id

-----------------------------------------------------------------------------
(* Rows of the tables that reference courses and lessons, and what         *)
(* Model.delete() does to them                                             *)

\* a DateTimeField that is NULL, and one that holds the time t
Null == << >>
At(t) == <<t>>

\* an Enrollment row; (student, course) is unique, amounts are in cents
Enrollment(student, course, is_paid, amount_paid) ==
    [student |-> student, course |-> course, is_paid |-> is_paid,
     amount_paid |-> amount_paid, progress_percentage |-> 0,
     completed |-> FALSE, completed_at |-> Null]

\* a ClassProgress row first saved at time t; its enrollment is named by
\* (student, course); last_accessed is auto_now
ClassProgress(student, course, lesson, t) ==
    [student |-> student, course |-> course, lesson |-> lesson,
     is_completed |-> FALSE, completed_at |-> Null, last_accessed |-> At(t)]

Review(course, student) == [course |-> course, student |-> student]

\* a Recipe or Book row whose course is not NULL
CourseRef(k, id, course) == [kind |-> k, id |-> id, course |-> course]

\* (mutant: the reference is left as it is)
SetNull_DoNothing(refs, course) == refs

\* on_delete=models.SET_NULL: the referencing rows stay, their course is NULL
SetNull(refs, course) == {l \in refs : l.course # course}

\* (mutant: enrollments are not collected with the course)
CascadeRows_Kept(rows, course) == rows

\* on_delete=models.CASCADE from Course: the referencing rows are deleted
CascadeRows(rows, course) == {r \in rows : r.course # course}

\* ClassProgress rows go with their enrollment and with their lesson
CascadeProgress(rows, course, lessons) ==
    {p \in rows : p.course # course /\ p.lesson \notin lessons}

\* Course.delete(): what the collector does to the other tables
DeleteCourseCascade(id) ==
    /\ classes' = CascadeRows(classes, id)
    /\ enrollments' = CascadeRows(enrollments, id)
    /\ class_progress' =
          CascadeProgress(class_progress, id, {c.id : c \in {x \in classes : x.course = id}})
    /\ reviews' = CascadeRows(reviews, id)
    /\ course_of' = SetNull(course_of, id)

-----------------------------------------------------------------------------
(* Initial state: empty tables, no request handled, both workers idle *)

Workers == {1, 2}

Idle == [pc |-> "idle", kind |-> "none", chef |-> "none", title |-> << >>,
         base_slug |-> << >>, slug |-> << >>, counter |-> 0, outcome |-> "none"]

NoResponse == [handler |-> "none", user |-> "none", status |-> "none",
               message |-> "none", queried |-> FALSE]

\* no call in progress, and a call with its argument and what it returned
NoResult == << >>
Result(call, arg, value) == <<call, arg, value>>

Init ==
    /\ store = [k \in Kinds |-> {}]
    /\ nextId = [k \in Kinds |-> 1]
    /\ origin = [k \in Kinds |-> {}]
    /\ resaves = 0
    /\ deletes = 0
    /\ inflight = [p \in Workers |-> Idle]
    /\ classes = {}
    /\ nextClassId = 1
    /\ resp = NoResponse
    /\ enrollments = {}
    /\ class_progress = {}
    /\ reviews = {}
    /\ course_of = {}
    /\ catalog = {}
    /\ now = 0
    /\ result = NoResult

-----------------------------------------------------------------------------
(* Model.save() and Model.delete(), run one at a time *)

\* save() of a new instance: the slug branch, then the INSERT
Create(k, chef, title, slug_in) ==
    /\ Created < MaxCreates
    /\ LET slug == SlugOnSave(store[k], title, slug_in)
           id == nextId[k]
       IN IF ViolatesUnique(store[k], id, slug)
          THEN UNCHANGED <<store, nextId, origin>>    \* IntegrityError raised
          ELSE /\ store' = [store EXCEPT ![k] = @ \cup {Row(id, chef, title, slug)}]
               /\ nextId' = [nextId EXCEPT ![k] = @ + 1]
               /\ origin' = [origin EXCEPT ![k] = @ \cup {Origin(id, title, slug_in, slug)}]
    /\ UNCHANGED <<resaves, deletes, inflight, classes, nextClassId, resp>>
    /\ UNCHANGED <<learning, aside>>

\* save() of a persisted instance whose title was set to `title`: the slug
\* branch runs again when the stored slug is empty, then the UPDATE
Resave(k, id, title) ==
    /\ resaves < MaxResaves
    /\ resaves' = resaves + 1
    /\ \E r \in store[k] : r.id = id
    /\ LET old == RowOf(store[k], id)
           slug == SlugOnSave(store[k], title, old.slug)
       IN IF ViolatesUnique(store[k], id, slug)
          THEN UNCHANGED store                        \* IntegrityError raised
          ELSE store' = [store EXCEPT ![k] =
                           (@ \ {old}) \cup {Row(id, old.chef, title, slug)}]
    /\ UNCHANGED <<nextId, origin, deletes, inflight, classes, nextClassId, resp>>
    /\ UNCHANGED <<learning, aside>>

\* delete() of a persisted instance, with what references it
Delete(k, id) ==
    /\ deletes < MaxDeletes
    /\ deletes' = deletes + 1
    /\ \E r \in store[k] : r.id = id
    /\ store' = [store EXCEPT ![k] = @ \ {RowOf(@, id)}]
    /\ IF k = "Course"
       THEN DeleteCourseCascade(id)
       ELSE /\ course_of' = {l \in course_of : ~(l.kind = k /\ l.id = id)}
            /\ UNCHANGED <<classes, enrollments, class_progress, reviews>>
    /\ origin' = [origin EXCEPT ![k] = {o \in @ : o.id # id}]
    /\ UNCHANGED <<nextId, resaves, inflight, nextClassId, resp, aside>>

\* what the callers of save() pass for a new instance: a title and no slug,
\* or a title with the slug typed in
NewInstances ==
    {<<t, NoSlug>> : t \in Titles} \cup {<< <<"A", "!">>, <<"a", "-", "1">> >>}

Next ==
    \/ \E k \in Kinds, n \in NewInstances : Create(k, "chef1", n[1], n[2])
    \/ \E k \in Kinds, id \in 1..MaxCreates, t \in Titles : Resave(k, id, t)
    \/ \E k \in Kinds, id \in 1..MaxCreates : Delete(k, id)

Spec == Init /\ [][Next]_vars

-----------------------------------------------------------------------------
(* save() of new instances by two workers, the other's steps interleaved:  *)
(* each exists() query and the INSERT is one storage round trip           *)

InFlight == {p \in Workers : inflight[p].pc # "idle"}

\* if not self.slug: base_slug = slugify(self.title); slug = base_slug; counter = 1
Begin(p, k, chef, title) ==
    /\ inflight[p].pc = "idle"
    /\ Created + Cardinality(InFlight) < MaxRaceCreates
    /\ inflight' = [inflight EXCEPT ![p] =
            [pc |-> "check", kind |-> k, chef |-> chef, title |-> title,
             base_slug |-> slugify(title), slug |-> slugify(title),
             counter |-> 1, outcome |-> "none"]]
    /\ UNCHANGED <<store, nextId, origin, resaves, deletes, classes, nextClassId, resp>>
    /\ UNCHANGED <<learning, aside>>

\* (mutant: the loop body formats the suffix and forgets counter += 1)
Check_CounterStuck(p) ==
    /\ inflight[p].pc = "check"
    /\ LET w == inflight[p]
       IN inflight' = [inflight EXCEPT ![p] =
            IF SlugExists(store[w.kind], w.slug)
            THEN [w EXCEPT !.slug = Candidate(w.base_slug, w.counter)]
            ELSE [w EXCEPT !.pc = "write"]]
    /\ UNCHANGED <<store, nextId, origin, resaves, deletes, classes, nextClassId, resp>>
    /\ UNCHANGED <<learning, aside>>

\* one evaluation of the while condition, and the loop body when it is true;
\* when it is false, self.slug = slug and the call goes on to the INSERT
Check(p) ==
    /\ inflight[p].pc = "check"
    /\ LET w == inflight[p]
       IN inflight' = [inflight EXCEPT ![p] =
            IF SlugExists(store[w.kind], w.slug)
            THEN [w EXCEPT !.slug = Candidate(w.base_slug, w.counter),
                           !.counter = w.counter + 1]
            ELSE [w EXCEPT !.pc = "write"]]
    /\ UNCHANGED <<store, nextId, origin, resaves, deletes, classes, nextClassId, resp>>
    /\ UNCHANGED <<learning, aside>>

\* super().save(): the INSERT; a rejected INSERT raises IntegrityError out of
\* save(), nothing catches it and nothing runs the loop again
Write(p) ==
    /\ inflight[p].pc = "write"
    /\ LET w == inflight[p]
           k == w.kind
           id == nextId[k]
       IN IF ViolatesUnique(store[k], id, w.slug)
          THEN /\ inflight' = [inflight EXCEPT ![p] =
                     [Idle EXCEPT !.kind = k, !.slug = w.slug,
                                  !.outcome = "IntegrityError"]]
               /\ UNCHANGED <<store, nextId, origin>>
          ELSE /\ inflight' = [inflight EXCEPT ![p] =
                     [Idle EXCEPT !.kind = k, !.slug = w.slug, !.outcome = "saved"]]
               /\ store' = [store EXCEPT ![k] = @ \cup {Row(id, w.chef, w.title, w.slug)}]
               /\ nextId' = [nextId EXCEPT ![k] = @ + 1]
               /\ origin' = [origin EXCEPT ![k] =
                               @ \cup {Origin(id, w.title, NoSlug, w.slug)}]
    /\ UNCHANGED <<resaves, deletes, classes, nextClassId, resp>>
    /\ UNCHANGED <<learning, aside>>

NextRace ==
    \/ \E p \in Workers, k \in Kinds, t \in Titles : Begin(p, k, "chef1", t)
    \/ \E p \in Workers : Check(p)
    \/ \E p \in Workers : Write(p)

SpecRace == Init /\ [][NextRace]_vars

-----------------------------------------------------------------------------
(* save() of new instances by one worker, nothing else touching the table   *)
(* while the call runs: the loop of save() one exists() query at a time     *)

\* the worker whose calls are followed step by step
Alone == 1

\* no call of save() is under way
Quiet == inflight[Alone].pc = "idle"

\* if not self.slug: base_slug = slugify(self.title); slug = base_slug; counter = 1
BeginAlone(k, chef, title) ==
    /\ Quiet
    /\ Created <= MaxCreates
    /\ inflight' = [inflight EXCEPT ![Alone] =
            [pc |-> "check", kind |-> k, chef |-> chef, title |-> title,
             base_slug |-> slugify(title), slug |-> slugify(title),
             counter |-> 1, outcome |-> "none"]]
    /\ UNCHANGED <<store, nextId, origin, resaves, deletes, classes, nextClassId, resp>>
    /\ UNCHANGED <<learning, aside>>

\* delete() of a persisted instance between two calls of save()
DeleteBetween(k, id) == Quiet /\ Delete(k, id)

\* exists() queries the call of save() under way has made: counter starts at
\* 1 and goes up by one with every query answered True; the query answered
\* False is one more
ExistenceChecks(w) == IF w.pc = "check" THEN w.counter - 1 ELSE w.counter

NextLoop ==
    \/ \E k \in Kinds, t \in Titles : BeginAlone(k, "chef1", t)
    \/ Check(Alone)
    \/ Write(Alone)
    \/ \E k \in Kinds, id \in 1..(MaxCreates + 1) : DeleteBetween(k, id)

SpecLoop == Init /\ [][NextLoop]_vars

\* a call of save() that was entered goes on: the interpreter runs the next
\* query, and then the INSERT
SpecLoopFair == SpecLoop /\ WF_vars(Check(Alone)) /\ WF_vars(Write(Alone))

-----------------------------------------------------------------------------
(* The management handlers of courses/views.py.  A request is its user, its *)
(* method, its URL argument and whether its form data validates; resp holds *)
(* the handler, the user and the response.                                  *)

\* request bodies: a GET carries no form data, a POST validates or does not
Requests ==
    {[method |-> "GET", form |-> "none"]} \cup
    {[method |-> "POST", form |-> f] : f \in {"valid", "invalid"}}

\* titles typed into the forms: of a new course, of an edited course, of a
\* lesson
NewCourseTitles == { <<"A", "!">> }
FormTitles == { <<"A", "!">>, <<"!">> }
ClassTitles == { <<"a">>, <<"b">> }

\* the lesson order typed into ClassForm
FormOrders == { 1 }

\* <slug:slug> in urls.py matches one or more slug characters: the slugs of
\* the courses there are, when not empty
UrlSlugs == {r.slug : r \in {c \in store["Course"] : c.slug # << >>}}

\* <int:pk> in urls.py: the keys the Class table has handed out or will
UrlPks == 1..MaxClasses

Response(handler, u, status, message, queried) ==
    [handler |-> handler, user |-> u, status |-> status, message |-> message,
     queried |-> queried]

\* @login_required sends an anonymous user to the login page
LoginRedirect(handler, u) ==
    Response(handler, u, "redirect_login", "none", FALSE)

\* messages.error(request, 'Access denied...'); return redirect('home')
AccessDenied(handler, u) ==
    Response(handler, u, "redirect_home", "access_denied", FALSE)

\* (mutant: the lookup is not scoped by chef)
get_course_or_404_AnyChef(slug, u) == {r \in store["Course"] : r.slug = slug}

\* get_object_or_404(Course, slug=slug, chef=request.user): the rows matched
get_course_or_404(slug, u) ==
    {r \in store["Course"] : r.slug = slug /\ r.chef = u}

\* (mutant: the lookup is not scoped by the course's chef)
get_class_or_404_AnyChef(pk, u) == {c \in classes : c.id = pk}

\* get_object_or_404(Class, pk=pk, course__chef=request.user): the rows matched
get_class_or_404(pk, u) ==
    {c \in classes : c.id = pk /\ \E r \in store["Course"] : r.id = c.course /\ r.chef = u}

\* render(request, '..._form.html', context): the empty form on a GET, the
\* submitted form with its field errors on a POST that did not validate
FormPage(req) == IF req.method = "POST" THEN "form_errors" ELSE "rendered"

\* redirect('course_edit', slug=slug): reversing the URL fails for an empty slug
RedirectToCourseEdit(slug) == IF slug = << >> THEN "server_error" ELSE "redirect"

NoWrite == UNCHANGED <<store, nextId, origin, classes, nextClassId, learning>>

\* requests are handled one at a time, each to its response
ViewFrame == resp = NoResponse /\ UNCHANGED <<resaves, deletes, inflight, aside>>

\* the response goes out; the server takes the next request
ResponseSent ==
    /\ resp # NoResponse
    /\ resp' = NoResponse
    /\ NoWrite
    /\ UNCHANGED <<resaves, deletes, inflight, aside>>

chef_dashboard(u, req) ==
    /\ ViewFrame
    /\ resp' = IF u = Anonymous THEN LoginRedirect("chef_dashboard", u)
               ELSE IF ~is_chef(u) THEN AccessDenied("chef_dashboard", u)
               ELSE Response("chef_dashboard", u, "rendered", "none", TRUE)
    /\ NoWrite

chef_courses(u, req) ==
    /\ ViewFrame
    /\ resp' = IF u = Anonymous THEN LoginRedirect("chef_courses", u)
               ELSE IF ~is_chef(u) THEN AccessDenied("chef_courses", u)
               ELSE Response("chef_courses", u, "rendered", "none", TRUE)
    /\ NoWrite

\* (mutant: the form is saved without is_valid())
FormAccepted_Unvalidated(req) == req.method = "POST"

\* if request.method == 'POST': ... if form.is_valid():
FormAccepted(req) == req.method = "POST" /\ req.form = "valid"

\* (mutant: the object is deleted on the request that shows the confirm page)
DeleteConfirmed_OnGet(req) == TRUE

\* if request.method == 'POST': (the delete handlers)
DeleteConfirmed(req) == req.method = "POST"

course_create(u, req) ==
    /\ ViewFrame
    /\ IF u = Anonymous
       THEN resp' = LoginRedirect("course_create", u) /\ NoWrite
       ELSE IF ~is_chef(u)
       THEN resp' = AccessDenied("course_create", u) /\ NoWrite
       ELSE IF FormAccepted(req)
       THEN /\ nextId["Course"] <= MaxCourses
            /\ \E title \in NewCourseTitles :  \* form.cleaned_data['title']
               LET rows == store["Course"]
                   id == nextId["Course"]
                   slug == SlugOnSave(rows, title, NoSlug)
               IN IF ViolatesUnique(rows, id, slug)
                  THEN /\ resp' = Response("course_create", u, "server_error", "none", TRUE)
                       /\ NoWrite
                  ELSE /\ store' = [store EXCEPT !["Course"] =
                                      @ \cup {Row(id, u, title, slug)}]
                       /\ nextId' = [nextId EXCEPT !["Course"] = @ + 1]
                       /\ origin' = [origin EXCEPT !["Course"] =
                                       @ \cup {Origin(id, title, NoSlug, slug)}]
                       /\ resp' = Response("course_create", u,
                                           RedirectToCourseEdit(slug), "success", TRUE)
                       /\ UNCHANGED <<classes, nextClassId, learning>>
       ELSE resp' = Response("course_create", u, FormPage(req), "none", FALSE)
            /\ NoWrite

course_edit(u, req, slug) ==
    /\ ViewFrame
    /\ IF u = Anonymous
       THEN resp' = LoginRedirect("course_edit", u) /\ NoWrite
       ELSE IF get_course_or_404(slug, u) = {}
       THEN resp' = Response("course_edit", u, "not_found", "none", TRUE)
            /\ NoWrite
       ELSE IF FormAccepted(req)
       THEN \E title \in FormTitles :         \* form.cleaned_data['title']
            LET rows == store["Course"]
                course == CHOOSE r \in get_course_or_404(slug, u) : TRUE
                new_slug == SlugOnSave(rows, title, course.slug)
            IN IF ViolatesUnique(rows, course.id, new_slug)
               THEN /\ resp' = Response("course_edit", u, "server_error", "none", TRUE)
                    /\ NoWrite
               ELSE /\ store' = [store EXCEPT !["Course"] =
                                   (@ \ {course}) \cup
                                      {Row(course.id, course.chef, title, new_slug)}]
                    /\ resp' = Response("course_edit", u,
                                        RedirectToCourseEdit(new_slug), "success", TRUE)
                    /\ UNCHANGED <<nextId, origin, classes, nextClassId, learning>>
       ELSE resp' = Response("course_edit", u, FormPage(req), "none", TRUE)
            /\ NoWrite

course_delete(u, req, slug) ==
    /\ ViewFrame
    /\ IF u = Anonymous
       THEN resp' = LoginRedirect("course_delete", u) /\ NoWrite
       ELSE IF get_course_or_404(slug, u) = {}
       THEN resp' = Response("course_delete", u, "not_found", "none", TRUE)
            /\ NoWrite
       ELSE IF DeleteConfirmed(req)
       THEN LET course == CHOOSE r \in get_course_or_404(slug, u) : TRUE
            IN /\ store' = [store EXCEPT !["Course"] = @ \ {course}]
               /\ origin' = [origin EXCEPT !["Course"] = {o \in @ : o.id # course.id}]
               /\ DeleteCourseCascade(course.id)
               /\ resp' = Response("course_delete", u, "redirect", "success", TRUE)
               /\ UNCHANGED <<nextId, nextClassId>>
       ELSE resp' = Response("course_delete", u, "rendered", "none", TRUE)
            /\ NoWrite

ClassRow(id, course, title, order) ==
    [id |-> id, course |-> course, title |-> title, order |-> order]

class_create(u, req, course_slug) ==
    /\ ViewFrame
    /\ IF u = Anonymous
       THEN resp' = LoginRedirect("class_create", u) /\ NoWrite
       ELSE IF get_course_or_404(course_slug, u) = {}
       THEN resp' = Response("class_create", u, "not_found", "none", TRUE)
            /\ NoWrite
       ELSE IF FormAccepted(req)
       THEN /\ nextClassId <= MaxClasses
            /\ \E title \in ClassTitles, order \in FormOrders :  \* form.cleaned_data
               LET course == CHOOSE r \in get_course_or_404(course_slug, u) : TRUE
               IN /\ classes' = classes \cup
                                   {ClassRow(nextClassId, course.id, title, order)}
                  /\ nextClassId' = nextClassId + 1
                  /\ resp' = Response("class_create", u,
                                      RedirectToCourseEdit(course.slug), "success", TRUE)
                  /\ UNCHANGED <<store, nextId, origin, learning>>
       ELSE resp' = Response("class_create", u, FormPage(req), "none", TRUE)
            /\ NoWrite

\* class_obj.course
CourseOfClass(c) == CHOOSE r \in store["Course"] : r.id = c.course

class_edit(u, req, pk) ==
    /\ ViewFrame
    /\ IF u = Anonymous
       THEN resp' = LoginRedirect("class_edit", u) /\ NoWrite
       ELSE IF get_class_or_404(pk, u) = {}
       THEN resp' = Response("class_edit", u, "not_found", "none", TRUE)
            /\ NoWrite
       ELSE IF FormAccepted(req)
       THEN \E title \in ClassTitles, order \in FormOrders :  \* form.cleaned_data
            LET class_obj == CHOOSE c \in get_class_or_404(pk, u) : TRUE
            IN /\ classes' = (classes \ {class_obj}) \cup
                                {ClassRow(class_obj.id, class_obj.course, title, order)}
               /\ resp' = Response("class_edit", u,
                                   RedirectToCourseEdit(CourseOfClass(class_obj).slug),
                                   "success", TRUE)
               /\ UNCHANGED <<store, nextId, origin, nextClassId, learning>>
       ELSE resp' = Response("class_edit", u, FormPage(req), "none", TRUE)
            /\ NoWrite

class_delete(u, req, pk) ==
    /\ ViewFrame
    /\ IF u = Anonymous
       THEN resp' = LoginRedirect("class_delete", u) /\ NoWrite
       ELSE IF get_class_or_404(pk, u) = {}
       THEN resp' = Response("class_delete", u, "not_found", "none", TRUE)
            /\ NoWrite
       ELSE IF DeleteConfirmed(req)
       THEN LET class_obj == CHOOSE c \in get_class_or_404(pk, u) : TRUE
            IN /\ classes' = classes \ {class_obj}
               /\ resp' = Response("class_delete", u,
                                   RedirectToCourseEdit(CourseOfClass(class_obj).slug),
                                   "success", TRUE)
               /\ class_progress' =
                     {p \in class_progress : p.lesson # class_obj.id}
               /\ UNCHANGED <<store, nextId, origin, nextClassId,
                              enrollments, reviews, course_of>>
       ELSE resp' = Response("class_delete", u, "rendered", "none", TRUE)
            /\ NoWrite

Visitors == Users \cup {Anonymous}

NextViews ==
    \/ \E u \in Visitors, req \in Requests, s \in UrlSlugs : course_edit(u, req, s)
    \/ \E u \in Visitors, req \in Requests, s \in UrlSlugs : course_delete(u, req, s)
    \/ \E u \in Visitors, req \in Requests, s \in UrlSlugs : class_create(u, req, s)
    \/ \E u \in Visitors, req \in Requests, pk \in UrlPks : class_edit(u, req, pk)
    \/ \E u \in Visitors, req \in Requests, pk \in UrlPks : class_delete(u, req, pk)
    \/ \E u \in Visitors, req \in Requests : course_create(u, req)
    \/ \E u \in Visitors, req \in Requests : chef_dashboard(u, req)
    \/ \E u \in Visitors, req \in Requests : chef_courses(u, req)
    \/ ResponseSent

SpecViews == Init /\ [][NextViews]_vars

-----------------------------------------------------------------------------
(* Enrollments, lesson progress and the accessors of courses/models.py,    *)
(* on a site that already has two courses, three lessons, a recipe and a   *)
(* book                                                                    *)

\* the users who get enrolled
Learners == {"student", "admin", "chef1"}

\* amount_paid, in cents
Amounts == {0, 3000, 4999}

\* the site without its lessons
InitSite ==
    /\ store = [k \in Kinds |->
          CASE k = "Course" -> {Row(1, "chef1", <<"A", "!">>, <<"a">>),
                                Row(2, "chef2", <<"A", "!">>, <<"a", "-", "1">>)}
            [] k = "Recipe" -> {Row(1, "chef1", <<"A", "!">>, <<"a">>)}
            [] k = "Book" -> {Row(1, "chef2", <<"A", "!">>, <<"a">>)}]
    /\ nextId = [k \in Kinds |-> IF k = "Course" THEN 3 ELSE 2]
    /\ origin = [k \in Kinds |->
          {Origin(r.id, r.title, NoSlug, r.slug) : r \in store[k]}]
    /\ resaves = 0
    /\ deletes = 0
    /\ inflight = [p \in Workers |-> Idle]
    /\ resp = NoResponse
    /\ enrollments = {}
    /\ class_progress = {}
    /\ reviews = {}
    /\ course_of = {CourseRef("Recipe", 1, 1), CourseRef("Book", 1, 2)}
    /\ catalog = {}
    /\ now = 0
    /\ result = NoResult

InitLearning ==
    /\ InitSite
    /\ classes = {ClassRow(1, 1, <<"a">>, 1), ClassRow(2, 1, <<"b">>, 2),
                  ClassRow(3, 2, <<"a">>, 1)}
    /\ nextClassId = 4

\* what the enrollment actions leave alone
LearningFrame ==
    /\ result = NoResult
    /\ UNCHANGED <<store, nextId, origin, resaves, deletes, inflight, classes,
                   nextClassId, resp, catalog>>

\* unique_together = ['student', 'course']
EnrollmentOf(student, course) ==
    {e \in enrollments : e.student = student /\ e.course = course}

\* Enrollment(student=..., course=..., is_paid=..., amount_paid=...).save()
Enroll(student, course, is_paid, amount_paid) ==
    /\ LearningFrame
    /\ Cardinality(enrollments) < MaxEnrollments
    /\ \E r \in store["Course"] : r.id = course
    /\ IF EnrollmentOf(student, course) # {}
       THEN UNCHANGED enrollments                     \* IntegrityError raised
       ELSE enrollments' = enrollments \cup
                              {Enrollment(student, course, is_paid, amount_paid)}
    /\ UNCHANGED <<class_progress, reviews, course_of, now, result>>

\* the payment columns of a persisted enrollment are set and saved
SetPayment(e, is_paid, amount_paid) ==
    /\ LearningFrame
    /\ e \in enrollments
    /\ enrollments' = (enrollments \ {e}) \cup
                         {[e EXCEPT !.is_paid = is_paid, !.amount_paid = amount_paid]}
    /\ UNCHANGED <<class_progress, reviews, course_of, now, result>>

\* the caller is back; the next call can be made
Returned ==
    /\ result # NoResult
    /\ result' = NoResult
    /\ UNCHANGED <<store, nextId, origin, resaves, deletes, inflight, classes,
                   nextClassId, resp, learning, catalog, now>>

\* a call that only reads
Reads(call, arg, value) ==
    /\ LearningFrame
    /\ result' = Result(call, arg, value)
    /\ UNCHANGED <<learning, now>>

\* (mutant: the is_paid filter is left out)
PaidEnrollments_All(course) == {e \in enrollments : e.course = course}

\* self.enrollments.filter(is_paid=True)
PaidEnrollments(course) == {e \in enrollments : e.course = course /\ e.is_paid}

\* .count()
get_enrolled_count(course) == Cardinality(PaidEnrollments(course))

\* Course.get_enrolled_count() called on a persisted course
CallEnrolledCount(course) ==
    /\ \E r \in store["Course"] : r.id = course
    /\ Reads("get_enrolled_count", course, get_enrolled_count(course))

\* (mutant: Sum('amount_paid', distinct=True), equal amounts added once)
RECURSIVE Total_DistinctAmounts(_)
Total_DistinctAmounts(rows) ==
    IF rows = {} THEN 0
    ELSE LET e == CHOOSE x \in rows : TRUE
         IN e.amount_paid +
            Total_DistinctAmounts({x \in rows : x.amount_paid # e.amount_paid})

\* the addition done by models.Sum('amount_paid'), row by row
RECURSIVE Total(_)
Total(rows) ==
    IF rows = {} THEN 0
    ELSE LET e == CHOOSE x \in rows : TRUE
         IN e.amount_paid + Total(rows \ {e})

\* .aggregate(total=models.Sum('amount_paid'))['total']: None (here the empty
\* tuple) over no rows
SumAmountPaid(rows) == IF rows = {} THEN << >> ELSE <<Total(rows)>>

\* total or 0: None and a zero sum both give 0
OrZero(total) == IF total = << >> THEN 0 ELSE IF total[1] = 0 THEN 0 ELSE total[1]

get_total_revenue(course) == OrZero(SumAmountPaid(PaidEnrollments(course)))

\* Course.get_total_revenue() called on a persisted course
CallTotalRevenue(course) ==
    /\ \E r \in store["Course"] : r.id = course
    /\ Reads("get_total_revenue", course, get_total_revenue(course))

\* (mutant: the three assignments without self.save())
mark_as_completed_NotSaved(e) ==
    /\ LearningFrame
    /\ e \in enrollments
    /\ now < MaxTime
    /\ now' = now + 1
    /\ UNCHANGED <<enrollments, class_progress, reviews, course_of, result>>

\* Enrollment.mark_as_completed(): three assignments, then self.save()
mark_as_completed(e) ==
    /\ LearningFrame
    /\ e \in enrollments
    /\ now < MaxTime
    /\ enrollments' = (enrollments \ {e}) \cup
                         {[e EXCEPT !.completed = TRUE,
                                    !.progress_percentage = 100,
                                    !.completed_at = At(now)]}
    /\ now' = now + 1
    /\ UNCHANGED <<class_progress, reviews, course_of, result>>

\* self.course.classes.count()
total_classes(e) == Cardinality({c \in classes : c.course = e.course})

\* the lessons of its course that enrollment e has completed, in the rows given
CompletedLessons(e, rows) ==
    {p \in rows : /\ p.student = e.student /\ p.course = e.course /\ p.is_completed
                  /\ \E c \in classes : c.id = p.lesson /\ c.course = e.course}

\* (mutant: the placeholder filled in: progress from the completed lessons)
update_progress_Recomputed(e, rows) ==
    IF total_classes(e) > 0
    THEN (enrollments \ {e}) \cup
            {[e EXCEPT !.progress_percentage =
                 (100 * Cardinality(CompletedLessons(e, rows))) \div total_classes(e)]}
    ELSE enrollments

\* Enrollment.update_progress(): the Enrollment table after the call, with the
\* ClassProgress rows as given; total_classes is counted and the body is pass
update_progress(e, rows) ==
    IF total_classes(e) > 0 THEN enrollments ELSE enrollments

\* Enrollment.update_progress() called on a persisted enrollment
CallUpdateProgress(e) ==
    /\ LearningFrame
    /\ e \in enrollments
    /\ enrollments' = update_progress(e, class_progress)
    /\ result' = Result("update_progress", <<e.student, e.course>>, Null)
    /\ UNCHANGED <<class_progress, reviews, course_of, now>>

\* ClassProgress(enrollment=e, lesson=lesson).save(); unique_together =
\* ['enrollment', 'lesson']
StartLesson(e, lesson) ==
    /\ LearningFrame
    /\ e \in enrollments
    /\ \E c \in classes : c.id = lesson
    /\ Cardinality(class_progress) < MaxStarted
    /\ IF \E p \in class_progress :
             p.student = e.student /\ p.course = e.course /\ p.lesson = lesson
       THEN UNCHANGED class_progress                  \* IntegrityError raised
       ELSE class_progress' = class_progress \cup
                                 {ClassProgress(e.student, e.course, lesson, now)}
    /\ UNCHANGED <<enrollments, reviews, course_of, now, result>>

\* self.enrollment of a ClassProgress row
EnrollmentOfProgress(p) == CHOOSE e \in enrollments :
                              e.student = p.student /\ e.course = p.course

\* ClassProgress.mark_as_completed(): two assignments, self.save(), then
\* self.enrollment.update_progress()
CompleteLesson(p) ==
    /\ LearningFrame
    /\ p \in class_progress
    /\ now < MaxTime
    /\ class_progress' = (class_progress \ {p}) \cup
                            {[p EXCEPT !.is_completed = TRUE, !.completed_at = At(now),
                                       !.last_accessed = At(now)]}
    /\ enrollments' = update_progress(EnrollmentOfProgress(p), class_progress')
    /\ now' = now + 1
    /\ UNCHANGED <<reviews, course_of, result>>

\* what my_courses answers: a status and the enrollments in the context
Page(status, shown, queried) ==
    [status |-> status, enrollments |-> shown, queried |-> queried]

\* (mutant: the student filter is left out)
MyEnrollments_OfAnyone(u) == {e \in enrollments : e.is_paid}

\* Enrollment.objects.filter(student=request.user, is_paid=True)
MyEnrollments(u) == {e \in enrollments : e.student = u /\ e.is_paid}

\* the my_courses view
my_courses(u) ==
    Reads("my_courses", u,
          IF u = Anonymous THEN Page("redirect_login", {}, FALSE)
          ELSE IF is_chef(u) THEN Page("redirect_chef_dashboard", {}, FALSE)
          ELSE Page("rendered", MyEnrollments(u), TRUE))

\* Review(course=..., student=...).save(); unique_together = ['course', 'student']
AddReview(course, student) ==
    /\ LearningFrame
    /\ \E r \in store["Course"] : r.id = course
    /\ reviews' = reviews \cup {Review(course, student)}
    /\ UNCHANGED <<enrollments, class_progress, course_of, now, result>>

\* Course.delete() between two calls
DeleteCourse(id) == result = NoResult /\ Delete("Course", id)

\* user.is_admin(), user.is_chef() and user.is_student() called on a user
CallCapabilities(u) ==
    Reads("capabilities", u,
          [is_admin |-> is_admin(u), is_chef |-> is_chef(u),
           is_student |-> is_student(u)])

\* the courses of InitLearning
CourseIds == {1, 2}

\* payments and the read-only calls
NextLearning ==
    \/ \E u \in Learners, c \in CourseIds, paid \in BOOLEAN, a \in Amounts :
          Enroll(u, c, paid, a)
    \/ \E e \in enrollments, paid \in BOOLEAN, a \in Amounts : SetPayment(e, paid, a)
    \/ \E c \in CourseIds : CallEnrolledCount(c)
    \/ \E c \in CourseIds : CallTotalRevenue(c)
    \/ \E u \in Visitors : my_courses(u)
    \/ \E u \in Users : CallCapabilities(u)
    \/ Returned

SpecLearning == InitLearning /\ [][NextLearning]_vars

\* paid enrollments, lessons started and completed, courses completed
NextProgress ==
    \/ \E c \in CourseIds : Enroll("student", c, TRUE, 3000)
    \/ \E e \in enrollments : mark_as_completed(e)
    \/ \E e \in enrollments : CallUpdateProgress(e)
    \/ \E e \in enrollments, c \in classes : StartLesson(e, c.id)
    \/ \E p \in class_progress : CompleteLesson(p)
    \/ Returned

SpecProgress == InitLearning /\ [][NextProgress]_vars

\* enrollments, progress rows and reviews, and courses deleted under them
NextCascade ==
    \/ \E u \in {"student", "admin"}, c \in CourseIds : Enroll(u, c, TRUE, 3000)
    \/ \E e \in enrollments, c \in classes : StartLesson(e, c.id)
    \/ \E c \in CourseIds : AddReview(c, "student")
    \/ \E c \in CourseIds : DeleteCourse(c)
    \/ \E u \in Chefs, slug \in UrlSlugs :
          course_delete(u, [method |-> "POST", form |-> "none"], slug)
    \/ ResponseSent

SpecCascade == InitLearning /\ [][NextCascade]_vars

-----------------------------------------------------------------------------
(* Lesson navigation: Class.get_next_class and Class.get_previous_class,   *)
(* on a site whose lessons have any course and any order                   *)

\* Class.order: PositiveIntegerField(default=0)
Orders == 0..MaxOrder

InitLessons ==
    /\ InitSite
    /\ \E f \in [1..MaxLessons -> CourseIds \X Orders] :
          classes = {ClassRow(i, f[i][1], <<"a">>, f[i][2]) : i \in 1..MaxLessons}
    /\ nextClassId = MaxLessons + 1

\* (mutant: the course filter is left out)
LaterLessons_AnyCourse(lesson) == {c \in classes : c.order > lesson.order}

\* Class.objects.filter(course=self.course, order__gt=self.order)
LaterLessons(lesson) ==
    {c \in classes : c.course = lesson.course /\ c.order > lesson.order}

\* (mutant: order__lte in place of order__lt)
EarlierLessons_OrEqual(lesson) ==
    {c \in classes : c.course = lesson.course /\ c.order <= lesson.order}

\* Class.objects.filter(course=self.course, order__lt=self.order)
EarlierLessons(lesson) ==
    {c \in classes : c.course = lesson.course /\ c.order < lesson.order}

\* .order_by('order').first(): the rows the database may put first; none when
\* there is no row (first() is then None)
FirstByOrder(rows) == {c \in rows : \A d \in rows : c.order <= d.order}

\* .order_by('-order').first()
FirstByOrderDesc(rows) == {c \in rows : \A d \in rows : c.order >= d.order}

get_next_class(lesson) == FirstByOrder(LaterLessons(lesson))

get_previous_class(lesson) == FirstByOrderDesc(EarlierLessons(lesson))

\* what first() returned: None is the empty set, a row c is {c}
Returns(rows, value) ==
    IF rows = {} THEN value = {} ELSE \E c \in rows : value = {c}

\* Class.get_next_class() called on a persisted lesson
CallNextClass(lesson) ==
    /\ lesson \in classes
    /\ \E value \in {{}} \cup {{c} : c \in classes} :
          /\ Returns(get_next_class(lesson), value)
          /\ Reads("get_next_class", lesson, value)

\* Class.get_previous_class() called on a persisted lesson
CallPreviousClass(lesson) ==
    /\ lesson \in classes
    /\ \E value \in {{}} \cup {{c} : c \in classes} :
          /\ Returns(get_previous_class(lesson), value)
          /\ Reads("get_previous_class", lesson, value)

NextLessons ==
    \/ \E c \in classes : CallNextClass(c)
    \/ \E c \in classes : CallPreviousClass(c)
    \/ Returned

SpecLessons == InitLessons /\ [][NextLessons]_vars

-----------------------------------------------------------------------------
(* The public course listing (views.course_list) over Course rows with any *)
(* chef, texts, level and publication flag                                 *)

\* User.username of the chefs
username(u) == IF u = "chef1" THEN <<"a", "b">> ELSE <<"z">>

ListedTitles == { <<"A", "!">>, <<"z">> }
Descriptions == { <<"b", "a">>, <<"z">> }
Levels == {"BEGINNER", "ADVANCED"}

\* a Course row as the listing reads it; created_at is the time of the INSERT,
\* later for a later row
CourseRow(id, chef, title, description, level, is_published) ==
    [id |-> id, chef |-> chef, title |-> title, description |-> description,
     level |-> level, is_published |-> is_published, created_at |-> id]

\* the slug columns of the first n courses f describes, saved one after the
\* other with no slug supplied
RECURSIVE SavedCourses(_, _)
SavedCourses(f, n) ==
    IF n = 0 THEN {}
    ELSE LET rows == SavedCourses(f, n - 1)
         IN rows \cup {Row(n, f[n][1], f[n][2], UniqueSlug(rows, slugify(f[n][2])))}

InitListing ==
    /\ \E f \in [1..MaxListed ->
                   Chefs \X ListedTitles \X Descriptions \X Levels \X BOOLEAN] :
          /\ catalog = {CourseRow(i, f[i][1], f[i][2], f[i][3], f[i][4], f[i][5]) :
                           i \in 1..MaxListed}
          /\ store = [k \in Kinds |->
                         IF k = "Course" THEN SavedCourses(f, MaxListed) ELSE {}]
    /\ nextId = [k \in Kinds |-> IF k = "Course" THEN MaxListed + 1 ELSE 1]
    /\ origin = [k \in Kinds |->
          {Origin(r.id, r.title, NoSlug, r.slug) : r \in store[k]}]
    /\ resaves = 0
    /\ deletes = 0
    /\ inflight = [p \in Workers |-> Idle]
    /\ classes = {}
    /\ nextClassId = 1
    /\ resp = NoResponse
    /\ enrollments = {}
    /\ class_progress = {}
    /\ reviews = {}
    /\ course_of = {}
    /\ now = 0
    /\ result = NoResult

\* request.GET.get('q') and request.GET.get('level'); a parameter that is
\* absent or empty is the empty string
Queries == { << >>, <<"a">>, <<"B">>, <<"1">> }
LevelParams == {"", "BEGINNER", "ADVANCED"}

\* needle occurs in hay
Contains(hay, needle) ==
    \E i \in 1..(Len(hay) - Len(needle) + 1) :
        SubSeq(hay, i, i + Len(needle) - 1) = needle

\* field__icontains=query
icontains(field, query) == Contains(LowerAll(field), LowerAll(query))

\* (mutant: only the title is searched)
MatchesQuery_TitleOnly(r, query) == icontains(r.title, query)

\* Q(title__icontains=query) | Q(description__icontains=query) |
\* Q(chef__username__icontains=query)
MatchesQuery(r, query) ==
    \/ icontains(r.title, query)
    \/ icontains(r.description, query)
    \/ icontains(username(r.chef), query)

\* (mutant: every course, published or not)
Published_All == catalog

\* Course.objects.filter(is_published=True)
Published == {r \in catalog : r.is_published}

\* the rows left by the two optional filters
Filtered(query, level) ==
    LET searched == IF query # << >>
                    THEN {r \in Published : MatchesQuery(r, query)}
                    ELSE Published
    IN IF level # "" THEN {r \in searched : r.level = level} ELSE searched

\* (mutant: ordering = ['created_at'])
RECURSIVE Ordered_OldestFirst(_)
Ordered_OldestFirst(rows) ==
    IF rows = {} THEN << >>
    ELSE LET first == CHOOSE r \in rows : \A x \in rows : r.created_at <= x.created_at
         IN <<first>> \o Ordered_OldestFirst(rows \ {first})

\* Course.Meta.ordering = ['-created_at']
RECURSIVE Ordered(_)
Ordered(rows) ==
    IF rows = {} THEN << >>
    ELSE LET first == CHOOSE r \in rows : \A x \in rows : r.created_at >= x.created_at
         IN <<first>> \o Ordered(rows \ {first})

\* the course_list view: context['courses']
course_list(query, level) ==
    Reads("course_list", <<query, level>>, Ordered(Filtered(query, level)))

NextListing ==
    \/ \E query \in Queries, level \in LevelParams : course_list(query, level)
    \/ Returned

SpecListing == InitListing /\ [][NextListing]_vars

-----------------------------------------------------------------------------
(* Claims about slug assignment, checked under Spec *)

\* C1: within each entity type no two persisted records have the same slug,
\* whatever creations, edits and deletions came before.
C1_SlugUniquePerType ==
    \A k \in Kinds : \A r1, r2 \in store[k] : r1.id # r2.id => r1.slug # r2.slug

\* C1 witness: a table holds two records, one of them edited, and a record of
\* another entity type has the same slug as one of them.
C1_Witness ==
    /\ resaves > 0
    /\ \E k1, k2 \in Kinds :
          /\ k1 # k2
          /\ Cardinality(store[k1]) >= 2
          /\ \E r1 \in store[k1], r2 \in store[k2] : r1.slug = r2.slug

\* the step inserts a row into table k
Inserts(k) == nextId'[k] = nextId[k] + 1

\* the history entry of the row the step inserts into table k
Inserted(k) == CHOOSE o \in origin'[k] : o.id = nextId[k]

\* only creations so far in table k, none with a slug supplied
OnlyCreations(k) ==
    resaves = 0 /\ deletes = 0 /\ \A o \in origin[k] : ~o.supplied

\* the rows of table k created before from a title with this base
CreatedFrom(k, base) == {o \in origin[k] : o.base = base}

\* slug is base or base-j
IsCandidateOf(slug, base, upto) ==
    slug = base \/ \E j \in 1..upto : slug = Candidate(base, j)

\* a row created from a title with another base holds a candidate of base
ForeignHolder(k, base) ==
    \E r \in store[k] :
        /\ IsCandidateOf(r.slug, base, nextId[k])
        /\ OriginOf(k, r.id).base # base

\* C2 as stated: under sequential creation with no slug supplied, the
\* creation that follows n >= 1 creations with the same base gets base-n,
\* whatever other titles were saved in between.
C2_GapFreeWhateverElse ==
    [][\A k \in Kinds :
         (Inserts(k) /\ OnlyCreations(k) /\ ~Inserted(k).supplied) =>
            LET n == Cardinality(CreatedFrom(k, Inserted(k).base))
            IN n >= 1 => Inserted(k).slug = Candidate(Inserted(k).base, n)]_vars

\* C2 amended: under sequential creation with no slug supplied, the creation
\* that follows n >= 1 creations with the same base gets base-n, provided no
\* record created from a title with a different base holds base or base-j.
C2_GapFreeAmongSameBase ==
    [][\A k \in Kinds :
         (/\ Inserts(k) /\ OnlyCreations(k) /\ ~Inserted(k).supplied
          /\ ~ForeignHolder(k, Inserted(k).base)) =>
            LET n == Cardinality(CreatedFrom(k, Inserted(k).base))
            IN n >= 1 => Inserted(k).slug = Candidate(Inserted(k).base, n)]_vars

\* C2 witness: a third creation with the same base got base-2, with a record
\* of another base saved in the same table.
C2_Witness ==
    \E k \in Kinds :
        /\ OnlyCreations(k)
        /\ \E o \in origin[k] :
              /\ Cardinality(CreatedFrom(k, o.base)) = 3
              /\ o.slug = Candidate(o.base, 2)
              /\ ~ForeignHolder(k, o.base)

\* C3: a creation with no slug supplied, for a title whose base no record of
\* that type holds, persists the record with the base as its slug.
C3_FreeBaseIsTheSlug ==
    [][\A k \in Kinds, t \in Titles :
         (Create(k, "chef1", t, NoSlug) /\ ~SlugExists(store[k], slugify(t))) =>
            Row(nextId[k], "chef1", t, slugify(t)) \in store'[k]]_vars

\* C3 witness: a record created without a slug holds its title's base while
\* another record of the same type holds a suffixed slug.
C3_Witness ==
    \E k \in Kinds : \E o1, o2 \in origin[k] :
        /\ ~o1.supplied /\ o1.slug = o1.base /\ o1.id > o2.id
        /\ o2.slug # o2.base
        /\ \E r \in store[k] : r.id = o1.id /\ r.slug = o1.base

\* C4 as stated: every persisted record has the slug its first save gave it.
C4_SlugNeverRecomputed ==
    \A k \in Kinds : \A r \in store[k] : r.slug = OriginOf(k, r.id).slug

\* C21 as stated: every persisted Course, Recipe or Book has a non-empty
\* slug, whatever its title, so no later save of a persisted record enters
\* the slug branch of save() again.
C21_SlugNeverEmpty ==
    \A k \in Kinds : \A r \in store[k] : r.slug # NoSlug

\* slug is the first of base, base-1, base-2, ... that no row holds
FirstFree(rows, base, slug, upto) ==
    /\ ~SlugExists(rows, slug)
    /\ \/ slug = base
       \/ \E j \in 1..upto :
             /\ slug = Candidate(base, j)
             /\ SlugExists(rows, base)
             /\ \A i \in 1..(j - 1) : SlugExists(rows, Candidate(base, i))

\* C20: a record saved without a slug (a new one, or a stored one whose slug
\* is empty) gets the first candidate of base, base-1, base-2, ... that no
\* record of its type holds at that moment, whatever was created, re-saved or
\* deleted before: a slug freed by a deletion is taken again, a candidate held
\* by a record of another title is passed over.
C20_FirstFreeCandidate ==
    [][\A k \in Kinds :
         /\ (Inserts(k) /\ ~Inserted(k).supplied) =>
               FirstFree(store[k], Inserted(k).base, Inserted(k).slug, nextId[k])
         /\ \A r \in store[k] :
               (resaves' # resaves /\ r.slug = NoSlug /\ r \notin store'[k]) =>
                  LET saved == RowOf(store'[k], r.id)
                  IN FirstFree(store[k], slugify(saved.title), saved.slug, nextId[k])]_vars

\* C20 witness: with no re-save, a record got base-1 because the base was
\* taken, the holder of the base was deleted, and a later record with the
\* same base got the bare base again.
C20_Witness ==
    /\ resaves = 0 /\ deletes > 0
    /\ \E k \in Kinds : \E o2, o3 \in origin[k] :
          /\ ~o2.supplied /\ ~o3.supplied
          /\ o2.base = o3.base /\ o2.id < o3.id
          /\ o2.slug = Candidate(o2.base, 1)
          /\ o3.slug = o3.base
          /\ \A o \in origin[k] : ~o.supplied

\* C20 witness: a record with the base "a" got a-2 because a-1 is held by a
\* record created from the title "a 1".
C20_WitnessSkipped ==
    /\ resaves = 0 /\ deletes = 0
    /\ \E k \in Kinds : \E o1, o2 \in origin[k] :
          /\ o1.base = <<"a">> /\ o1.slug = <<"a", "-", "2">>
          /\ o2.base = <<"a", "-", "1">> /\ o2.slug = <<"a", "-", "1">>
          /\ ~o1.supplied /\ ~o2.supplied

-----------------------------------------------------------------------------
(* Claims about concurrent creations, checked under SpecRace *)

\* worker p performs its INSERT in this step
Writes(p) == inflight[p].pc = "write" /\ inflight'[p].pc = "idle"

\* C22: a call of save() without a slug, run with nothing else touching the
\* table, has made at most n + 1 exists() queries at every moment, n being the
\* number of records of its type, and always ends with the record written.
C22_LoopEndsWithinNPlusOneChecks ==
    /\ [](~Quiet =>
            ExistenceChecks(inflight[Alone]) <=
                Cardinality(store[inflight[Alone].kind]) + 1)
    /\ (~Quiet ~> (Quiet /\ inflight[Alone].outcome = "saved"))

\* C22 witness: with three records in the table holding base, base-1 and
\* base-2, the call made four queries and is about to write base-3.
C22_Witness ==
    LET w == inflight[Alone]
    IN /\ w.pc = "write"
       /\ Cardinality(store[w.kind]) = 3
       /\ ExistenceChecks(w) = 4
       /\ w.slug = Candidate(w.base_slug, 3)

\* C22 witness: a call that found three candidates taken has written the
\* record under the fourth.
C22_WitnessWritten ==
    LET w == inflight[Alone]
    IN /\ Quiet /\ w.outcome = "saved"
       /\ \E k \in Kinds :
             /\ w.kind = k
             /\ Cardinality(store[k]) = 4
             /\ \E r \in store[k] : r.slug = w.slug /\ r.id = nextId[k] - 1
       /\ \E b \in {slugify(t) : t \in Titles} : w.slug = Candidate(b, 3)

\* C5: two concurrent creations can pick the same candidate; the INSERT of a
\* slug that the table already holds is rejected with IntegrityError, leaves
\* the table unchanged and ends the call (no retry); any other INSERT is
\* persisted; and the table never holds the same slug twice.
C5_RaceRejectedByStorage ==
    [][/\ \A p \in Workers : Writes(p) =>
            LET w == inflight[p]
            IN IF SlugExists(store[w.kind], w.slug)
               THEN /\ store' = store
                    /\ inflight'[p].outcome = "IntegrityError"
               ELSE /\ inflight'[p].outcome = "saved"
                    /\ store'[w.kind] =
                          store[w.kind] \cup
                             {Row(nextId[w.kind], w.chef, w.title, w.slug)}
       /\ \A k \in Kinds : \A r1, r2 \in store'[k] :
             r1.id # r2.id => r1.slug # r2.slug]_vars

\* C5 witness: both workers chose the same candidate for the same table; one
\* INSERT was persisted and the other ended in IntegrityError.
C5_Witness ==
    /\ inflight[1].pc = "idle" /\ inflight[2].pc = "idle"
    /\ inflight[1].kind = inflight[2].kind
    /\ inflight[1].slug = inflight[2].slug
    /\ inflight[1].outcome = "saved"
    /\ inflight[2].outcome = "IntegrityError"
    /\ Cardinality({r \in store[inflight[1].kind] : r.slug = inflight[1].slug}) = 1

-----------------------------------------------------------------------------
(* Claims about the management handlers, checked under SpecViews *)

ChefRoutes ==
    {"chef_dashboard", "chef_courses", "course_create", "course_edit",
     "course_delete", "class_create", "class_edit", "class_delete"}

\* the user the response in resp went to is logged in and not a chef
AnsweredNonChef == resp.user \in Users /\ ~is_chef(resp.user)

\* C6 as stated: a logged-in non-chef requesting any chef-scoped management
\* route is redirected to home and the handler never reaches the Course /
\* Class query or mutation.
C6_NonChefNeverReachesQuery ==
    (resp.handler \in ChefRoutes /\ AnsweredNonChef) =>
        (resp.status = "redirect_home" /\ ~resp.queried)

\* the chef of the course with this primary key
ChefOfCourse(id) == (CHOOSE r \in store["Course"] : r.id = id).chef

\* the step handles a request (its user is then resp'.user)
Handles == resp = NoResponse /\ resp' # NoResponse

\* C7: a request modifies or deletes a Course only if its user is that
\* course's chef, and creates, modifies or deletes a Class only if its user is
\* the chef of the class's course.
C7_OnlyTheOwnerWrites ==
    [][Handles =>
         /\ \A r \in store["Course"] :
               r \notin store'["Course"] => resp'.user = r.chef
         /\ \A c \in classes :
               c \notin classes' => resp'.user = ChefOfCourse(c.course)
         /\ \A c \in classes' :
               c \notin classes => resp'.user = ChefOfCourse(c.course)]_vars

\* C7 witness: a chef's write to a course or class succeeded while another
\* chef's course is in the table.
C7_Witness ==
    /\ resp.handler \in {"course_edit", "course_delete", "class_create",
                          "class_edit", "class_delete"}
    /\ resp.message = "success"
    /\ \E r \in store["Course"] : r.chef # resp.user

\* the request leaves every Course and Class row as it was
Untouched == store' = store /\ classes' = classes

\* the answer is the not-found outcome, not the access-denied redirect
NotFound == resp'.status = "not_found" /\ resp'.message = "none"

\* C8: a chef requesting course_edit, course_delete or class_create with the
\* slug of another chef's course, or class_edit or class_delete with the key
\* of a class of another chef's course, gets not-found and changes nothing.
\* (Only a step that is not such an answer can be a violation, so only those
\* steps are compared with the handlers.)
C8_OtherChefsRecordNotFound ==
    [][(Handles /\ resp'.user \in Chefs /\ ~(NotFound /\ Untouched)) =>
         LET u == resp'.user
         IN \A req \in Requests :
               /\ \A s \in UrlSlugs :
                     (\E r \in store["Course"] : r.slug = s /\ r.chef # u) =>
                        ((\/ course_edit(u, req, s)
                          \/ course_delete(u, req, s)
                          \/ class_create(u, req, s)) => (NotFound /\ Untouched))
               /\ \A pk \in UrlPks :
                     (\E c \in classes : c.id = pk /\ ChefOfCourse(c.course) # u) =>
                        ((class_edit(u, req, pk) \/ class_delete(u, req, pk)) =>
                            (NotFound /\ Untouched))]_vars

\* C8 witness: a chef's course_edit request was answered not-found when every
\* course it could name belongs to another chef.
C8_Witness ==
    /\ resp.handler = "course_edit" /\ resp.status = "not_found"
    /\ resp.user \in Chefs
    /\ UrlSlugs # {}
    /\ \A r \in store["Course"] : r.chef # resp.user

\* C9 as stated: an anonymous or wrong-role request to a management or
\* dashboard route gets the "access denied" message and a redirect to home.
C9_DeniedMeansRedirectHome ==
    (resp.handler \in ChefRoutes /\ (resp.user = Anonymous \/ AnsweredNonChef)) =>
        (resp.status = "redirect_home" /\ resp.message = "access_denied")

\* C10: a create or edit handler changes Course and Class rows only on a POST
\* whose form validates, and a delete handler only on a POST.  (Only a step
\* that changes a row can be a violation, so only those steps are compared
\* with the handlers.)
C10_WritesOnlyOnValidPost ==
    [][(Handles /\ ~Untouched) =>
         LET u == resp'.user
         IN \A req \in Requests :
               /\ ~(req.method = "POST" /\ req.form = "valid") =>
                     /\ course_create(u, req) => Untouched
                     /\ \A s \in UrlSlugs :
                           (course_edit(u, req, s) \/ class_create(u, req, s)) => Untouched
                     /\ \A pk \in UrlPks : class_edit(u, req, pk) => Untouched
               /\ req.method # "POST" =>
                     /\ \A s \in UrlSlugs : course_delete(u, req, s) => Untouched
                     /\ \A pk \in UrlPks : class_delete(u, req, pk) => Untouched]_vars

\* C10 witness: the owner's POST to course_edit did not validate and the form
\* came back with its errors; the course is still in the table.
C10_Witness ==
    /\ resp.handler = "course_edit" /\ resp.status = "form_errors"
    /\ \E r \in store["Course"] : r.chef = resp.user

-----------------------------------------------------------------------------
(* Claims about the enrollment accessors, checked under SpecLearning *)

\* the call that has just returned is `call`
Called(call) == result # NoResult /\ result[1] = call

\* C11: get_enrolled_count(course) returns the number of enrollments of that
\* course with is_paid true, after any enrollment creations and payment
\* changes; it is 0 for a course with no enrollments; unpaid enrollments and
\* enrollments of other courses are not counted.
C11_EnrolledCountIsPaidOfCourse ==
    Called("get_enrolled_count") =>
        LET course == result[2]
        IN /\ result[3] = Cardinality({e \in enrollments :
                                          e.course = course /\ e.is_paid = TRUE})
           /\ (\A e \in enrollments : e.course # course) => result[3] = 0

\* C11 witness: the count returned is 1 while the course also has an unpaid
\* enrollment and the other course has a paid one.
C11_Witness ==
    /\ Called("get_enrolled_count") /\ result[3] = 1
    /\ \E e \in enrollments : e.course = result[2] /\ ~e.is_paid
    /\ \E e \in enrollments : e.course # result[2] /\ e.is_paid

\* what user u has paid for the course: the amount of u's enrollment if it is
\* paid, nothing otherwise
PaidBy(u, course) ==
    IF \E e \in enrollments : e.student = u /\ e.course = course /\ e.is_paid
    THEN (CHOOSE e \in enrollments :
             e.student = u /\ e.course = course /\ e.is_paid).amount_paid
    ELSE 0

\* C12: get_total_revenue(course) returns a number, never None: 0 when the
\* course has no paid enrollment, and otherwise the exact sum in cents of
\* amount_paid over the course's paid enrollments, amounts of unpaid
\* enrollments excluded.
C12_RevenueIsSumOfPaid ==
    Called("get_total_revenue") =>
        LET course == result[2]
        IN /\ result[3] \in Nat
           /\ result[3] = PaidBy("student", course) + PaidBy("admin", course)
                             + PaidBy("chef1", course)
           /\ (\A e \in enrollments : e.course = course => ~e.is_paid)
                 => result[3] = 0

\* C12 witness: 79.99 returned for a course with paid enrollments of 49.99 and
\* 30.00 and an unpaid enrollment whose amount is not zero.
C12_Witness ==
    /\ Called("get_total_revenue") /\ result[3] = 7999
    /\ \E e \in enrollments :
          e.course = result[2] /\ ~e.is_paid /\ e.amount_paid > 0

\* C18: my_courses sends every user whose role is CHEF to the chef dashboard
\* without querying enrollments, and shows every other logged-in user exactly
\* the enrollments whose student is that user and whose is_paid is true.
C18_MyCoursesOwnPaidOnly ==
    Called("my_courses") =>
        LET u == result[2]
            page == result[3]
        IN u \in Users =>
              IF role(u) = "CHEF"
              THEN /\ page.status = "redirect_chef_dashboard"
                   /\ ~page.queried /\ page.enrollments = {}
              ELSE /\ page.status = "rendered"
                   /\ page.enrollments =
                         {e \in enrollments : e.student = u /\ e.is_paid = TRUE}

\* C18 witness: a student is shown one enrollment while the student also has
\* an unpaid enrollment and another user has a paid one.
C18_Witness ==
    /\ Called("my_courses") /\ result[3].status = "rendered"
    /\ Cardinality(result[3].enrollments) = 1
    /\ \E e \in enrollments : e.student = result[2] /\ ~e.is_paid
    /\ \E e \in enrollments : e.student # result[2] /\ e.is_paid

\* C18 witness: a chef who has a paid enrollment is sent to the dashboard.
C18_WitnessChef ==
    /\ Called("my_courses") /\ result[3].status = "redirect_chef_dashboard"
    /\ \E e \in enrollments : e.student = result[2] /\ e.is_paid

\* C19: for every user is_chef() is true exactly when the role is CHEF and
\* is_admin() is true exactly when the role is ADMIN or CHEF: every chef
\* passes the admin check and no student does.
C19_CapabilityChecks ==
    Called("capabilities") =>
        LET r == role(result[2])
            answer == result[3]
        IN /\ answer.is_chef = (r = "CHEF")
           /\ answer.is_admin = (r \in {"ADMIN", "CHEF"})
           /\ r = "CHEF" => answer.is_admin
           /\ r = "STUDENT" => ~answer.is_admin /\ ~answer.is_chef

\* C19 witness: a chef has been asked and passes both checks, while users of
\* the other two roles hold enrollments.
C19_Witness ==
    /\ Called("capabilities") /\ role(result[2]) = "CHEF"
    /\ result[3].is_admin /\ result[3].is_chef /\ ~result[3].is_student
    /\ \E e1, e2 \in enrollments :
          role(e1.student) = "STUDENT" /\ role(e2.student) = "ADMIN"

-----------------------------------------------------------------------------
(* Claims about lesson navigation, checked under SpecLessons *)

\* the lessons of the course of `lesson` after it, and before it, by order
After(lesson) == {c \in classes : c.course = lesson.course /\ c.order > lesson.order}
Before(lesson) == {c \in classes : c.course = lesson.course /\ c.order < lesson.order}

\* C13: get_next_class of a lesson returns a lesson of the same course whose
\* order is the smallest one strictly greater than the lesson's, and None when
\* the course has no lesson of greater order; get_previous_class returns a
\* lesson of the same course whose order is the largest one strictly less,
\* and None when there is none.
C13_NextAndPreviousByOrder ==
    /\ Called("get_next_class") =>
          LET lesson == result[2]
          IN IF After(lesson) = {} THEN result[3] = {}
             ELSE \E r \in After(lesson) :
                     /\ result[3] = {r}
                     /\ \A c \in After(lesson) : r.order <= c.order
    /\ Called("get_previous_class") =>
          LET lesson == result[2]
          IN IF Before(lesson) = {} THEN result[3] = {}
             ELSE \E r \in Before(lesson) :
                     /\ result[3] = {r}
                     /\ \A c \in Before(lesson) : r.order >= c.order

\* C13 witness: in a course whose lessons have the orders 1, 2 and 3, the
\* next lesson of the one with order 1 is the one with order 2.
C13_Witness ==
    /\ Called("get_next_class")
    /\ {c.order : c \in {x \in classes : x.course = result[2].course}} = {1, 2, 3}
    /\ result[2].order = 1
    /\ \E r \in classes : result[3] = {r} /\ r.order = 2

\* C13 witness: in the same course the lesson with order 3 has no next lesson.
C13_WitnessLast ==
    /\ Called("get_next_class")
    /\ {c.order : c \in {x \in classes : x.course = result[2].course}} = {1, 2, 3}
    /\ result[2].order = 3
    /\ result[3] = {}

-----------------------------------------------------------------------------
(* Claims about progress and completion, checked under SpecProgress *)

\* the step is a call of `call`
Calls(call) == result = NoResult /\ result' # NoResult /\ result'[1] = call

\* every table but ClassProgress is as it was
OnlyProgressRowsChange ==
    UNCHANGED <<store, classes, enrollments, reviews, course_of, catalog>>

\* C14: update_progress(enrollment) writes nothing: every Enrollment row and
\* every other row is as before the call; and ClassProgress.mark_as_completed
\* changes its own ClassProgress row only (is_completed true, completed_at the
\* current time), never an Enrollment, however many lessons are completed.
C14_UpdateProgressWritesNothing ==
    [][/\ Calls("update_progress") =>
             (OnlyProgressRowsChange /\ class_progress' = class_progress)
       /\ \A p \in class_progress :
             CompleteLesson(p) =>
                /\ OnlyProgressRowsChange
                /\ \A q \in class_progress : q # p => q \in class_progress'
                /\ \E q \in class_progress' :
                      /\ class_progress' \ class_progress \subseteq {q}
                      /\ q.student = p.student /\ q.course = p.course
                      /\ q.lesson = p.lesson
                      /\ q.is_completed /\ q.completed_at = At(now)]_vars

\* C14 witness: update_progress has been called on an enrollment that has
\* completed both lessons of its course; its progress is still 0.
C14_Witness ==
    /\ Called("update_progress")
    /\ \E e \in enrollments :
          /\ <<e.student, e.course>> = result[2]
          /\ e.progress_percentage = 0 /\ ~e.completed
          /\ Cardinality({c \in classes : c.course = e.course}) = 2
          /\ \A c \in classes : c.course = e.course =>
                \E p \in class_progress :
                    /\ p.student = e.student /\ p.course = e.course
                    /\ p.lesson = c.id /\ p.is_completed

\* C15: Enrollment.mark_as_completed persists completed = true,
\* progress_percentage = 100 and completed_at = the current time, whatever the
\* row held before (a completed row stays completed at 100); is_paid and
\* amount_paid of the row and every other row are unchanged.
C15_MarkAsCompleted ==
    [][\A e \in enrollments :
         mark_as_completed(e) =>
            /\ \E d \in enrollments' :
                  /\ enrollments' = (enrollments \ {e}) \cup {d}
                  /\ d.student = e.student /\ d.course = e.course
                  /\ d.completed /\ d.progress_percentage = 100
                  /\ d.completed_at = At(now)
                  /\ d.is_paid = e.is_paid /\ d.amount_paid = e.amount_paid
            /\ UNCHANGED <<store, classes, class_progress, reviews, course_of,
                           catalog>>]_vars

\* C15 witness: of two paid enrollments one has been marked completed twice
\* (no lesson was completed, the clock was read twice) and the other never.
C15_Witness ==
    /\ now = 2
    /\ \A p \in class_progress : ~p.is_completed
    /\ \E e1, e2 \in enrollments :
          /\ e1.completed /\ e1.progress_percentage = 100 /\ e1.completed_at = At(1)
          /\ e1.is_paid /\ e1.amount_paid = 3000
          /\ ~e2.completed /\ e2.progress_percentage = 0 /\ e2.completed_at = Null

-----------------------------------------------------------------------------
(* Claims about the course listing, checked under SpecListing *)

\* position of course r in the list returned
ListedAt(r) == {i \in 1..Len(result[3]) : result[3][i] = r}

\* C16: the listing holds, once each, exactly the published courses that pass
\* the filters given: a non-empty q occurs, letter case ignored, in the title,
\* the description or the chef's username; a non-empty level equals the
\* course's level.  An unpublished course is never listed, and a course
\* created later comes before a course created earlier.
C16_ListingIsPublishedAndFiltered ==
    Called("course_list") =>
        LET query == result[2][1]
            level == result[2][2]
            shown == result[3]
        IN /\ \A r \in catalog :
                 Cardinality(ListedAt(r)) =
                    IF /\ r.is_published = TRUE
                       /\ query # << >> =>
                             \/ icontains(r.title, query)
                             \/ icontains(r.description, query)
                             \/ icontains(username(r.chef), query)
                       /\ level # "" => r.level = level
                    THEN 1 ELSE 0
           /\ \A i \in 1..Len(shown) : shown[i] \in catalog
           /\ \A i, j \in 1..Len(shown) :
                 i < j => shown[i].created_at > shown[j].created_at

\* C16 witness: a search lists the one published course that matches, through
\* its chef's username only, while an unpublished course that matches too is
\* left out.
C16_Witness ==
    /\ Called("course_list") /\ result[2][1] = <<"B">> /\ Len(result[3]) = 1
    /\ ~icontains(result[3][1].title, <<"B">>)
    /\ ~icontains(result[3][1].description, <<"B">>)
    /\ \E r \in catalog : ~r.is_published /\ icontains(username(r.chef), <<"B">>)

\* C16 witness: two published courses are listed, the later one first.
C16_WitnessOrder ==
    /\ Called("course_list") /\ Len(result[3]) = 2
    /\ result[3][1].id = 2 /\ result[3][2].id = 1

-----------------------------------------------------------------------------
(* Claims about deleting a course, checked under SpecCascade *)

\* the keys of the rows of a table
Ids(rows) == {r.id : r \in rows}

\* no row of the state after the step references a course, an enrollment or a
\* lesson that is not there
NothingDangles ==
    /\ \A c \in classes' : c.course \in Ids(store'["Course"])
    /\ \A e \in enrollments' : e.course \in Ids(store'["Course"])
    /\ \A r \in reviews' : r.course \in Ids(store'["Course"])
    /\ \A l \in course_of' : l.course \in Ids(store'["Course"])
    /\ \A p \in class_progress' :
          /\ \E e \in enrollments' : e.student = p.student /\ e.course = p.course
          /\ p.lesson \in Ids(classes')

\* C17: a step that deletes a Course (Course.delete(), or the course_delete
\* view) deletes exactly the Classes, Enrollments and Reviews that reference
\* it and the ClassProgress rows of those enrollments and lessons; every
\* Recipe and Book row stays as it is, the course reference of those that
\* referenced the course becomes null and the other references stay; nothing
\* is left referencing a course that is gone.
C17_CourseDeleteCascades ==
    [][\A course \in store["Course"] :
         course \notin store'["Course"] =>
            LET gone == {c \in classes : c.course = course.id}
            IN /\ classes' = classes \ gone
               /\ enrollments' = {e \in enrollments : e.course # course.id}
               /\ reviews' = {r \in reviews : r.course # course.id}
               /\ class_progress' =
                     {p \in class_progress :
                         p.course # course.id /\ p.lesson \notin Ids(gone)}
               /\ store'["Recipe"] = store["Recipe"]
               /\ store'["Book"] = store["Book"]
               /\ course_of' = {l \in course_of : l.course # course.id}
               /\ store'["Course"] = store["Course"] \ {course}
               /\ NothingDangles]_vars

\* C17 witness: course 1 has been deleted with its two lessons; the recipe
\* that referenced it is kept with no course, the book still references
\* course 2, and an enrollment and a review of course 2 are kept.
C17_Witness ==
    /\ Ids(store["Course"]) = {2}
    /\ Ids(classes) = {3}
    /\ Ids(store["Recipe"]) = {1} /\ Ids(store["Book"]) = {1}
    /\ course_of = {CourseRef("Book", 1, 2)}
    /\ \E e \in enrollments : e.course = 2
    /\ \E r \in reviews : r.course = 2

====
